---- MODULE Spec2Model ----
(***************************************************************************)
(* Model of script.py: the exhaustive search find_best_combination over    *)
(* (nanoparticle, wavelength) pairings and the cross-talk score            *)
(* calculate_S_score.                                                      *)
(*                                                                         *)
(* A DataFrame is a sequence of rows [nm, Qsca, Qabs] (the Qext column is  *)
(* never read by the search).  The catalog, a Python dict, is a sequence   *)
(* of entries [name, df] in insertion order with pairwise distinct names.  *)
(*                                                                         *)
(* Efficiencies, weights and scores are float64 values.  The model holds   *)
(* the integer-valued double hi * 2^53 + lo (hi and lo small integers) as  *)
(* the record [hi, lo]; sums and products are rounded to the nearest       *)
(* double, ties to even, as the float arithmetic of the script does.       *)
(***************************************************************************)
EXTENDS Integers, Sequences, FiniteSets, TLC

(* nanoparticleData, n, weights: the arguments of find_best_combination;   *)
(* pc, err: where the invocation is and the exception it ended in;         *)
(* nanoparticles, wavelengths, candidates, pos: the key list, the universe,*)
(* the combinations of line 81 and the index of the current one;           *)
(* score, maxScore, bestCombination: the locals of the loop;               *)
(* printed: the reports of line 103; lookups: the calls made so far of     *)
(* calculate_absorption and calculate_scattering; scored: the last         *)
(* candidate passed to calculate_S_score; ret: the returned pair.          *)
VARIABLES nanoparticleData, n, weights, pc, err, nanoparticles, wavelengths,
          candidates, pos, score, maxScore, bestCombination, printed,
          lookups, scored, ret

vars == <<nanoparticleData, n, weights, pc, err, nanoparticles, wavelengths,
          candidates, pos, score, maxScore, bestCombination, printed,
          lookups, scored, ret>>

-----------------------------------------------------------------------------
(* Bounds of the model and the sets the inputs are drawn from.             *)

MaxN == 3
MaxRows == 2

Double(hi, lo) == [hi |-> hi, lo |-> lo]
Whole(i) == Double(0, i)

Names == <<"A", "B">>
Rows == {[nm |-> 1, Qsca |-> Whole(5), Qabs |-> Whole(0)],
         [nm |-> 1, Qsca |-> Whole(1), Qabs |-> Whole(0)],
         [nm |-> 2, Qsca |-> Whole(5), Qabs |-> Whole(0)],
         [nm |-> 2, Qsca |-> Whole(1), Qabs |-> Whole(0)],
         [nm |-> 2, Qsca |-> Double(1, 2), Qabs |-> Whole(2)]}
WeightConfigs == {[scattering |-> Whole(2), absorption |-> Whole(0)],
                  [scattering |-> Whole(1), absorption |-> Whole(1)]}
Factors == {2, 3}

(* tables of at most MaxRows rows, in any order; a wavelength may appear   *)
(* in several rows (a row repeated identically would change no lookup)     *)
Tables ==
    UNION {{t \in [1..m -> Rows] : \A i, j \in 1..m : i # j => t[i] # t[j]} :
              m \in 0..MaxRows}
Catalogs == UNION {{[i \in 1..k |-> [name |-> Names[i], df |-> t[i]]] :
                       t \in [1..k -> Tables]} : k \in 0..Len(Names)}

-----------------------------------------------------------------------------
(* Values of the script that are not numbers or tuples.                    *)

None == [tag |-> "None"]
Some(c) == [tag |-> "Some", val |-> c]
NegInf == [fin |-> FALSE]
Fin(x) == [fin |-> TRUE, val |-> x]
NoScore == [fin |-> FALSE]
NoReturn == [tag |-> "NoReturn"]
Returned(b, s) == [tag |-> "Returned", best |-> b, score |-> s]

-----------------------------------------------------------------------------
(* float64 arithmetic on the doubles hi * 2^53 + lo.  A double of          *)
(* magnitude in [2^(52+t), 2^(53+t)) is a multiple of 2^t; below 2^53      *)
(* every integer is a double.                                              *)

RECURSIVE bit_length(_)
bit_length(h) == IF h = 0 THEN 0 ELSE 1 + bit_length(h \div 2)

RECURSIVE pow2(_)
pow2(t) == IF t = 0 THEN 1 ELSE 2 * pow2(t - 1)

(* the multiple of ulp nearest to l, the even multiple on a tie *)
nearest_even(l, ulp) ==
    LET q == l \div ulp
        r == l - q * ulp
    IN IF 2 * r < ulp THEN q * ulp
       ELSE IF 2 * r > ulp THEN (q + 1) * ulp
       ELSE IF q % 2 = 0 THEN q * ulp ELSE (q + 1) * ulp

(* the double nearest to hi * 2^53 + lo *)
round(hi, lo) ==
    IF hi = 0 THEN Double(0, lo)
    ELSE LET sign == IF hi < 0 THEN -1 ELSE 1
             h == sign * hi
             l == sign * lo
             t == bit_length(h)
             ulp == IF l < 0 /\ h = pow2(t - 1) THEN pow2(t - 1) ELSE pow2(t)
         IN Double(hi, sign * nearest_even(l, ulp))

add(a, b) == round(a.hi + b.hi, a.lo + b.lo)
sub(a, b) == round(a.hi - b.hi, a.lo - b.lo)

(* product of two doubles of which at most one reaches 2^53 *)
mul(a, b) == round(a.lo * b.hi + a.hi * b.lo, a.lo * b.lo)

gt(a, b) == a.hi > b.hi \/ (a.hi = b.hi /\ a.lo > b.lo)

-----------------------------------------------------------------------------
(* Table access.                                                           *)

keys(data) == [i \in 1..Len(data) |-> data[i].name]

frame(data, nanoparticle) ==
    data[CHOOSE i \in 1..Len(data) : data[i].name = nanoparticle].df

RECURSIVE unique(_)
unique(s) ==
    IF s = <<>> THEN <<>>
    ELSE LET init == unique(SubSeq(s, 1, Len(s) - 1))
             last == s[Len(s)]
         IN IF \E i \in 1..Len(init) : init[i] = last
            THEN init ELSE Append(init, last)

column0(df) == [i \in 1..Len(df) |-> df[i].nm]

target_row(df, wavelength) == SelectSeq(df, LAMBDA r : r.nm = wavelength)

calculate_absorption(data, nanoparticle, wavelength) ==
    LET rows == target_row(frame(data, nanoparticle), wavelength)
    IN IF rows # <<>> THEN [ok |-> TRUE, val |-> rows[1].Qabs]
       ELSE [ok |-> FALSE]

calculate_scattering(data, nanoparticle, wavelength) ==
    LET rows == target_row(frame(data, nanoparticle), wavelength)
    IN IF rows # <<>> THEN [ok |-> TRUE, val |-> rows[1].Qsca]
       ELSE [ok |-> FALSE]

-----------------------------------------------------------------------------
(* calculate_S_score: the two nested loops, with the number of lookups     *)
(* made and the ValueError of a failed lookup (ok = FALSE) carried along.  *)

Raised(cnt) == [ok |-> FALSE, val |-> Whole(0), cnt |-> cnt]

(* Faulty variant of penalty_loop: the other nanoparticle is looked up at   *)
(* its own assigned wavelength instead of the wavelength of pair i.        *)
RECURSIVE penalty_loop_own_wavelength(_, _, _, _, _, _, _)
penalty_loop_own_wavelength(j, i, len, combination, data, w, acc) ==
    IF j > len THEN acc
    ELSE IF i = j
         THEN penalty_loop_own_wavelength(j + 1, i, len, combination, data, w,
                                          acc)
    ELSE LET other_nanoparticle == combination[j][1]
             wavelength == combination[j][2]
             other_absorption ==
                 calculate_absorption(data, other_nanoparticle, wavelength)
             other_scattering ==
                 calculate_scattering(data, other_nanoparticle, wavelength)
         IN IF ~other_absorption.ok THEN Raised(acc.cnt + 1)
            ELSE IF ~other_scattering.ok THEN Raised(acc.cnt + 2)
            ELSE penalty_loop_own_wavelength(j + 1, i, len, combination, data,
                    w,
                    [ok |-> TRUE,
                     val |-> add(acc.val,
                                 add(mul(w.scattering, other_scattering.val),
                                     mul(w.absorption, other_absorption.val))),
                     cnt |-> acc.cnt + 2])

RECURSIVE penalty_loop(_, _, _, _, _, _, _)
penalty_loop(j, i, len, combination, data, w, acc) ==
    IF j > len THEN acc
    ELSE IF i = j THEN penalty_loop(j + 1, i, len, combination, data, w, acc)
    ELSE LET other_nanoparticle == combination[j][1]
             wavelength == combination[i][2]
             other_absorption ==
                 calculate_absorption(data, other_nanoparticle, wavelength)
             other_scattering ==
                 calculate_scattering(data, other_nanoparticle, wavelength)
         IN IF ~other_absorption.ok THEN Raised(acc.cnt + 1)
            ELSE IF ~other_scattering.ok THEN Raised(acc.cnt + 2)
            ELSE penalty_loop(j + 1, i, len, combination, data, w,
                    [ok |-> TRUE,
                     val |-> add(acc.val,
                                 add(mul(w.scattering, other_scattering.val),
                                     mul(w.absorption, other_absorption.val))),
                     cnt |-> acc.cnt + 2])

RECURSIVE score_loop(_, _, _, _, _, _)
score_loop(i, len, combination, data, w, acc) ==
    IF i > len THEN acc
    ELSE LET nanoparticle == combination[i][1]
             wavelength == combination[i][2]
             absorptionCrossSection ==
                 calculate_absorption(data, nanoparticle, wavelength)
             scatteringCrossSection ==
                 calculate_scattering(data, nanoparticle, wavelength)
         IN IF ~absorptionCrossSection.ok THEN Raised(acc.cnt + 1)
            ELSE IF ~scatteringCrossSection.ok THEN Raised(acc.cnt + 2)
            ELSE LET totalCrossSectionScore ==
                         add(mul(w.scattering, scatteringCrossSection.val),
                             mul(w.absorption, absorptionCrossSection.val))
                     total_penalty ==
                         penalty_loop(1, i, len, combination, data, w,
                             [ok |-> TRUE, val |-> Whole(0),
                              cnt |-> acc.cnt + 2])
                 IN IF ~total_penalty.ok THEN Raised(total_penalty.cnt)
                    ELSE score_loop(i + 1, len, combination, data, w,
                            [ok |-> TRUE,
                             val |-> add(acc.val,
                                         sub(totalCrossSectionScore,
                                             total_penalty.val)),
                             cnt |-> total_penalty.cnt])

(* Faulty variant of calculate_S_score: the weights of main() are used     *)
(* (equal weights) instead of the weights passed in.                       *)
calculate_S_score_equal_weights(len, combination, data, w) ==
    score_loop(1, len, combination, data,
               [scattering |-> Whole(1), absorption |-> Whole(1)],
               [ok |-> TRUE, val |-> Whole(0), cnt |-> 0])

calculate_S_score(len, combination, data, w) ==
    score_loop(1, len, combination, data, w,
               [ok |-> TRUE, val |-> Whole(0), cnt |-> 0])

-----------------------------------------------------------------------------
(* Candidate generation and the validity filter of find_best_combination.  *)

(* Faulty variant of pairs: identifiers zipped with wavelengths instead of  *)
(* the cross product.                                                      *)
pairs_zipped(nps, wls) ==
    [k \in 1..(IF Len(nps) < Len(wls) THEN Len(nps) ELSE Len(wls)) |->
        <<nps[k], wls[k]>>]

pairs(nps, wls) ==
    [k \in 1..(Len(nps) * Len(wls)) |->
        <<nps[((k - 1) \div Len(wls)) + 1], wls[((k - 1) % Len(wls)) + 1]>>]

RECURSIVE combinations(_, _)
combinations(pool, r) ==
    IF r = 0 THEN << <<>> >>
    ELSE IF Len(pool) < r THEN <<>>
    ELSE LET rest == combinations(Tail(pool), r - 1)
         IN [k \in 1..Len(rest) |-> <<Head(pool)>> \o rest[k]]
            \o combinations(Tail(pool), r)

RECURSIVE valid_loop(_, _, _)
valid_loop(k, combination, used_nanoparticles) ==
    IF k > Len(combination) THEN TRUE
    ELSE IF combination[k][1] \in used_nanoparticles THEN FALSE
    ELSE valid_loop(k + 1, combination,
                    used_nanoparticles \cup {combination[k][1]})

(* Faulty variant of valid_combination: used_nanoparticles is emptied on    *)
(* every iteration, so no repetition is ever seen.                         *)
valid_combination_reset(combination) ==
    \A k \in 1..Len(combination) : combination[k][1] \notin {}

(* Faulty variant of valid_combination: a wavelength used by two pairs is  *)
(* rejected as well, as the comment on line 84 words it.                   *)
valid_combination_or_wavelength(combination) ==
    /\ valid_loop(1, combination, {})
    /\ \A i, j \in 1..Len(combination) :
          i # j => combination[i][2] # combination[j][2]

valid_combination(combination) == valid_loop(1, combination, {})

(* Faulty variant of exceeds: score >= maxScore.                           *)
exceeds_or_equal(s, max) == IF max.fin THEN ~gt(max.val, s) ELSE TRUE

(* Faulty variant of exceeds: maxScore initialised to 0 instead of -inf.   *)
exceeds_from_zero(s, max) ==
    IF max.fin THEN gt(s, max.val) ELSE gt(s, Whole(0))

exceeds(s, max) == IF max.fin THEN gt(s, max.val) ELSE TRUE

-----------------------------------------------------------------------------
(* find_best_combination as a function of its arguments: the loop over the *)
(* candidates folded from the first to the last.                           *)

RECURSIVE search_loop(_, _, _, _, _, _)
search_loop(k, cands, len, data, w, acc) ==
    IF k > Len(cands) THEN acc
    ELSE IF ~valid_combination(cands[k])
         THEN search_loop(k + 1, cands, len, data, w, acc)
    ELSE LET result == calculate_S_score(len, cands[k], data, w)
         IN IF ~result.ok
            THEN [ok |-> FALSE, err |-> "ValueError"]
            ELSE IF exceeds(result.val, acc.maxScore)
            THEN search_loop(k + 1, cands, len, data, w,
                    [ok |-> TRUE, bestCombination |-> Some(cands[k]),
                     maxScore |-> Fin(result.val)])
            ELSE search_loop(k + 1, cands, len, data, w, acc)

find_best_combination(len, data, w) ==
    IF keys(data) = <<>> THEN [ok |-> FALSE, err |-> "IndexError"]
    ELSE search_loop(1,
            combinations(pairs(keys(data), unique(column0(data[1].df))), len),
            len, data, w,
            [ok |-> TRUE, bestCombination |-> None, maxScore |-> NegInf])

-----------------------------------------------------------------------------
(* One invocation of find_best_combination, one candidate per step.        *)

(* the candidate the loop of line 81 is at *)
combination == candidates[pos]

Init ==
    /\ nanoparticleData \in Catalogs
    /\ n \in 0..MaxN
    /\ weights \in WeightConfigs
    /\ pc = "start"
    /\ err = "none"
    /\ nanoparticles = <<>>
    /\ wavelengths = <<>>
    /\ candidates = <<>>
    /\ pos = 0
    /\ score = NoScore
    /\ maxScore = NegInf
    /\ bestCombination = None
    /\ printed = <<>>
    /\ lookups = 0
    /\ scored = None
    /\ ret = NoReturn

(* lines 73-78 on a catalog with at least one key *)
Start ==
    /\ pc = "start"
    /\ keys(nanoparticleData) # <<>>
    /\ nanoparticles' = keys(nanoparticleData)
    /\ wavelengths' = unique(column0(nanoparticleData[1].df))
    /\ candidates' = combinations(pairs(nanoparticles', wavelengths'), n)
    /\ pos' = 1
    /\ pc' = "loop"
    /\ UNCHANGED <<nanoparticleData, n, weights, err, score, maxScore,
                   bestCombination, printed, lookups, scored, ret>>

(* line 78 on a catalog without keys: nanoparticles[0] raises IndexError *)
StartRaises ==
    /\ pc = "start"
    /\ keys(nanoparticleData) = <<>>
    /\ nanoparticles' = keys(nanoparticleData)
    /\ pc' = "error"
    /\ err' = "IndexError"
    /\ UNCHANGED <<nanoparticleData, n, weights, wavelengths, candidates, pos,
                   score, maxScore, bestCombination, printed, lookups,
                   scored, ret>>

(* lines 82-93: a candidate that repeats a nanoparticle *)
SkipCandidate ==
    /\ pc = "loop"
    /\ pos <= Len(candidates)
    /\ ~valid_combination(combination)
    /\ pos' = pos + 1
    /\ UNCHANGED <<nanoparticleData, n, weights, pc, err, nanoparticles,
                   wavelengths, candidates, score, maxScore,
                   bestCombination, printed, lookups, scored, ret>>

(* Faulty variant of ScoreCandidate: the report of line 103 is made after  *)
(* every scored candidate, outside the comparison of line 98.              *)
ScoreCandidate_reports_all ==
    /\ pc = "loop"
    /\ pos <= Len(candidates)
    /\ valid_combination(combination)
    /\ LET result ==
               calculate_S_score(n, combination, nanoparticleData, weights)
       IN /\ result.ok
          /\ lookups' = lookups + result.cnt
          /\ score' = Fin(result.val)
          /\ IF exceeds(result.val, maxScore)
             THEN /\ maxScore' = Fin(result.val)
                  /\ bestCombination' = Some(combination)
             ELSE UNCHANGED <<maxScore, bestCombination>>
          /\ printed' = Append(printed, <<bestCombination', maxScore'>>)
    /\ scored' = Some(combination)
    /\ pos' = pos + 1
    /\ UNCHANGED <<nanoparticleData, n, weights, pc, err, nanoparticles,
                   wavelengths, candidates, ret>>

(* lines 82-103: a valid candidate whose score is computed *)
ScoreCandidate ==
    /\ pc = "loop"
    /\ pos <= Len(candidates)
    /\ valid_combination(combination)
    /\ LET result ==
               calculate_S_score(n, combination, nanoparticleData, weights)
       IN /\ result.ok
          /\ lookups' = lookups + result.cnt
          /\ score' = Fin(result.val)
          /\ IF exceeds(result.val, maxScore)
             THEN /\ maxScore' = Fin(result.val)
                  /\ bestCombination' = Some(combination)
                  /\ printed' = Append(printed,
                                   <<Some(combination), Fin(result.val)>>)
             ELSE UNCHANGED <<maxScore, bestCombination, printed>>
    /\ scored' = Some(combination)
    /\ pos' = pos + 1
    /\ UNCHANGED <<nanoparticleData, n, weights, pc, err, nanoparticles,
                   wavelengths, candidates, ret>>

(* Faulty variant of ScoreRaises: the ValueError is caught and the         *)
(* candidate skipped.                                                      *)
ScoreRaises_caught ==
    /\ pc = "loop"
    /\ pos <= Len(candidates)
    /\ valid_combination(combination)
    /\ LET result ==
               calculate_S_score(n, combination, nanoparticleData, weights)
       IN /\ ~result.ok
          /\ lookups' = lookups + result.cnt
    /\ scored' = Some(combination)
    /\ pos' = pos + 1
    /\ UNCHANGED <<nanoparticleData, n, weights, pc, err, nanoparticles,
                   wavelengths, candidates, score, maxScore,
                   bestCombination, printed, ret>>

(* lines 82-96: a valid candidate one of whose lookups raises ValueError *)
ScoreRaises ==
    /\ pc = "loop"
    /\ pos <= Len(candidates)
    /\ valid_combination(combination)
    /\ LET result ==
               calculate_S_score(n, combination, nanoparticleData, weights)
       IN /\ ~result.ok
          /\ lookups' = lookups + result.cnt
    /\ scored' = Some(combination)
    /\ pc' = "error"
    /\ err' = "ValueError"
    /\ UNCHANGED <<nanoparticleData, n, weights, nanoparticles, wavelengths,
                   candidates, pos, score, maxScore, bestCombination,
                   printed, ret>>

(* line 105 *)
Return ==
    /\ pc = "loop"
    /\ pos > Len(candidates)
    /\ ret' = Returned(bestCombination, maxScore)
    /\ pc' = "done"
    /\ UNCHANGED <<nanoparticleData, n, weights, err, nanoparticles,
                   wavelengths, candidates, pos, score, maxScore,
                   bestCombination, printed, lookups, scored>>

Next ==
    \/ Start
    \/ StartRaises
    \/ SkipCandidate
    \/ ScoreCandidate
    \/ ScoreRaises
    \/ Return

Spec == Init /\ [][Next]_vars

(* the steps above and the fold find_best_combination agree *)
TypeOK ==
    /\ pc \in {"start", "loop", "done", "error"}
    /\ err \in {"none", "IndexError", "ValueError"}
    /\ (pc = "error") = (err # "none")
    /\ (pc = "done") = (ret # NoReturn)
    /\ pc = "done" =>
          find_best_combination(n, nanoparticleData, weights)
            = [ok |-> TRUE, bestCombination |-> ret.best,
               maxScore |-> ret.score]
    /\ pc = "error" =>
          find_best_combination(n, nanoparticleData, weights)
            = [ok |-> FALSE, err |-> err]

-----------------------------------------------------------------------------
(* Vocabulary of the properties, stated on the catalog itself.             *)

Identifiers == {nanoparticleData[i].name : i \in 1..Len(nanoparticleData)}

TableOf(P) ==
    nanoparticleData[CHOOSE i \in 1..Len(nanoparticleData) :
                        nanoparticleData[i].name = P].df

HasRecord(P, wl) == \E r \in 1..Len(TableOf(P)) : TableOf(P)[r].nm = wl

FirstRecord(P, wl) ==
    TableOf(P)[CHOOSE r \in 1..Len(TableOf(P)) :
                  /\ TableOf(P)[r].nm = wl
                  /\ \A q \in 1..(r - 1) : TableOf(P)[q].nm # wl]

Response(w, P, wl) ==
    add(mul(w.scattering, FirstRecord(P, wl).Qsca),
        mul(w.absorption, FirstRecord(P, wl).Qabs))

Universe ==
    IF nanoparticleData = <<>> THEN {}
    ELSE {nanoparticleData[1].df[r].nm : r \in 1..Len(nanoparticleData[1].df)}

(* f[1] + ... + f[k], added from the left *)
RECURSIVE Sum(_, _)
Sum(f, k) == IF k = 0 THEN Whole(0) ELSE add(Sum(f, k - 1), f[k])

(* the indices of A other than i, in increasing order *)
Others(A, i) == [m \in 1..(Len(A) - 1) |-> IF m < i THEN m ELSE m + 1]

(* own response of every pair minus the responses of the other selected    *)
(* nanoparticles at that pair's wavelength                                 *)
CrossTalkScore(w, A) ==
    Sum([i \in 1..Len(A) |->
            sub(Response(w, A[i][1], A[i][2]),
                Sum([m \in 1..(Len(A) - 1) |->
                        Response(w, A[Others(A, i)[m]][1], A[i][2])],
                    Len(A) - 1))],
        Len(A))

Negative(x) == gt(Whole(0), x)

DistinctNanoparticles(A) ==
    \A i, j \in DOMAIN A : i # j => A[i][1] # A[j][1]

CompleteCatalog == \A P \in Identifiers : \A wl \in Universe : HasRecord(P, wl)

MissingLookup(A) ==
    \E i, j \in DOMAIN A : ~HasRecord(A[j][1], A[i][2])

(* position of a pair in the flat list: identifiers in catalog order, then *)
(* wavelengths in the order they first appear in the first table           *)
IdRank(P) ==
    CHOOSE i \in 1..Len(nanoparticleData) : nanoparticleData[i].name = P

WlRank(wl) ==
    CHOOSE r \in 1..Len(nanoparticleData[1].df) :
        /\ nanoparticleData[1].df[r].nm = wl
        /\ \A q \in 1..(r - 1) : nanoparticleData[1].df[q].nm # wl

PairBefore(p, q) ==
    \/ IdRank(p[1]) < IdRank(q[1])
    \/ IdRank(p[1]) = IdRank(q[1]) /\ WlRank(p[2]) < WlRank(q[2])

(* the size-k subsets of the flat list, each in the order of the list *)
Subsets(k) ==
    {A \in [1..k -> Identifiers \X Universe] :
        \A i \in 1..(k - 1) : PairBefore(A[i], A[i + 1])}

(* the valid assignments of k pairs *)
Assignments(k) == {A \in Subsets(k) : DistinctNanoparticles(A)}

EnumeratedBefore(A, B) ==
    \E i \in DOMAIN A :
        /\ PairBefore(A[i], B[i])
        /\ \A j \in 1..(i - 1) : A[j] = B[j]

-----------------------------------------------------------------------------
(* C1 as stated: on a non-empty catalog whose tables all hold every        *)
(* wavelength of the universe and 1 <= n <= number of nanoparticles, the   *)
(* search returns an assignment of n pairs with pairwise distinct          *)
(* nanoparticles together with its score, and no valid assignment scores   *)
(* strictly more.  Violated when the first table has no rows.              *)
C1_Original ==
    (nanoparticleData # <<>> /\ CompleteCatalog
       /\ 1 <= n /\ n <= Len(nanoparticleData))
    => /\ pc # "error"
       /\ pc = "done" =>
            /\ ret.best # None
            /\ ret.best.val \in Assignments(n)
            /\ ret.score = Fin(CrossTalkScore(weights, ret.best.val))
            /\ \A B \in Assignments(n) :
                  ~gt(CrossTalkScore(weights, B), ret.score.val)

(* C1 amended: the same, for a universe with at least one wavelength.      *)
C1_GlobalMaximum ==
    (nanoparticleData # <<>> /\ CompleteCatalog /\ Universe # {}
       /\ 1 <= n /\ n <= Len(nanoparticleData))
    => /\ pc # "error"
       /\ pc = "done" =>
            /\ ret.best # None
            /\ ret.best.val \in Assignments(n)
            /\ ret.score = Fin(CrossTalkScore(weights, ret.best.val))
            /\ \A B \in Assignments(n) :
                  ~gt(CrossTalkScore(weights, B), ret.score.val)

C1_Witness ==
    /\ pc = "done"
    /\ Len(nanoparticleData) = 2 /\ n = 2 /\ CompleteCatalog
    /\ Cardinality(Universe) = 2
    /\ ret.best # None
    /\ gt(ret.score.val, Whole(0))
    /\ weights.absorption # Whole(0)
    /\ \E B \in Assignments(n) :
          gt(ret.score.val, CrossTalkScore(weights, B))

(* C2: among the valid candidates with the maximal score the search        *)
(* returns the one enumerated first, and a candidate whose score equals    *)
(* the running maximum never replaces the running best.                    *)
C2_FirstMaximalWins ==
    /\ [](pc = "done" /\ ret.best # None =>
            /\ ret.best.val \in Assignments(n)
            /\ \A B \in Assignments(n) :
                  (/\ ~gt(ret.score.val, CrossTalkScore(weights, B))
                   /\ B # ret.best.val)
                  => /\ CrossTalkScore(weights, B) = ret.score.val
                     /\ EnumeratedBefore(ret.best.val, B))
    /\ [][(/\ pos' = pos + 1
           /\ maxScore.fin
           /\ DistinctNanoparticles(combination)
           /\ CrossTalkScore(weights, combination) = maxScore.val)
          => UNCHANGED <<bestCombination, maxScore>>]_vars

C2_Witness ==
    /\ pc = "done"
    /\ ret.best # None
    /\ n = 1
    /\ Len(nanoparticleData) = 2
    /\ \E B \in Assignments(n) :
          /\ B # ret.best.val
          /\ CrossTalkScore(weights, B) = ret.score.val
    /\ \E B \in Assignments(n) :
          gt(ret.score.val, CrossTalkScore(weights, B))

(* C3: when a lookup needed to score a valid candidate finds no record,    *)
(* the invocation ends in the ValueError of the lookup: the candidate is   *)
(* not skipped, no later candidate is considered and nothing is returned,  *)
(* whatever the running best was.                                          *)
C3_LookupFailureAborts ==
    /\ [](pc = "error" => ret = NoReturn /\ ~ENABLED Next)
    /\ [][(/\ pc = "loop"
           /\ pos <= Len(candidates)
           /\ DistinctNanoparticles(combination)
           /\ MissingLookup(combination))
          => /\ pc' = "error"
             /\ err' = "ValueError"
             /\ ret' = NoReturn
             /\ UNCHANGED <<pos, bestCombination, maxScore, printed>>]_vars

C3_Witness ==
    /\ pc = "error"
    /\ err = "ValueError"
    /\ bestCombination # None
    /\ pos < Len(candidates)

(* C4 as stated: for n >= 1 an empty catalog, or a first table without     *)
(* wavelengths, yields no candidate and the result (None, -inf), never an  *)
(* error.  Violated by the empty catalog, on which line 78 raises.         *)
C4_DegenerateReturnsNone ==
    (n >= 1 /\ (nanoparticleData = <<>> \/ Universe = {}))
    => /\ pc # "error"
       /\ scored = None
       /\ pc = "done" => ret = Returned(None, NegInf)

(* C5: on a non-empty catalog with n greater than the number of            *)
(* identifiers no candidate is scored, no lookup is made, no error occurs  *)
(* and the result is (None, -inf).                                         *)
C5_TooManyRequested ==
    (nanoparticleData # <<>> /\ n > Len(nanoparticleData))
    => /\ pc # "error"
       /\ lookups = 0
       /\ scored = None
       /\ score = NoScore
       /\ printed = <<>>
       /\ pc = "done" => ret = Returned(None, NegInf)

C5_Witness ==
    /\ pc = "done"
    /\ Len(nanoparticleData) = 2
    /\ n = 3
    /\ pos > 4
    /\ ~CompleteCatalog

(* C6: for n = 0 on a non-empty catalog the only candidate is the empty    *)
(* subset; it is scored 0 without any lookup, is reported, and the search  *)
(* returns the empty assignment (not None) with score 0.                   *)
C6_ZeroRequested ==
    (n = 0 /\ nanoparticleData # <<>>)
    => /\ pc # "error"
       /\ lookups = 0
       /\ pc \in {"loop", "done"} => candidates = << <<>> >>
       /\ pc = "done" =>
            /\ ret = Returned(Some(<<>>), Fin(Whole(0)))
            /\ scored = Some(<<>>)
            /\ printed = << <<Some(<<>>), Fin(Whole(0))>> >>

C6_Witness ==
    /\ pc = "done"
    /\ n = 0
    /\ Len(nanoparticleData) = 2
    /\ ret.best = Some(<<>>)

Scaled(k, w) ==
    [scattering |-> mul(Whole(k), w.scattering),
     absorption |-> mul(Whole(k), w.absorption)]

ScaledResult(k) ==
    [ok |-> TRUE, bestCombination |-> ret.best,
     maxScore |-> IF ret.score.fin THEN Fin(mul(Whole(k), ret.score.val))
                  ELSE NegInf]

ExampleCatalog ==
    <<[name |-> "A",
       df |-> <<[nm |-> 1, Qsca |-> Whole(5), Qabs |-> Whole(0)],
                [nm |-> 2, Qsca |-> Whole(1), Qabs |-> Whole(0)]>>],
      [name |-> "B",
       df |-> <<[nm |-> 1, Qsca |-> Whole(1), Qabs |-> Whole(0)],
                [nm |-> 2, Qsca |-> Whole(5), Qabs |-> Whole(0)]>>]>>

ExampleResult ==
    (/\ nanoparticleData = ExampleCatalog
     /\ weights = [scattering |-> Whole(2), absorption |-> Whole(0)]
     /\ n = 2)
    => ret = Returned(Some(<< <<"A", 1>>, <<"B", 2>> >>), Fin(Whole(16)))

(* every efficiency of the catalog is an integer below 2^53 *)
SmallEfficiencies ==
    \A i \in 1..Len(nanoparticleData) :
       \A r \in 1..Len(nanoparticleData[i].df) :
          /\ nanoparticleData[i].df[r].Qsca.hi = 0
          /\ nanoparticleData[i].df[r].Qabs.hi = 0

(* C8 as stated: whenever the search succeeds, the search with both        *)
(* weights multiplied by a positive factor k succeeds with the same        *)
(* assignment and exactly k times the score; on the two-nanoparticle       *)
(* example with weights {2, 0} and n = 2 the result is [(A, 1), (B, 2)]    *)
(* with score 16.  Violated where a product or sum is rounded.             *)
C8_Original ==
    pc = "done" =>
       /\ \A k \in Factors :
             find_best_combination(n, nanoparticleData, Scaled(k, weights))
               = ScaledResult(k)
       /\ ExampleResult

(* C8 amended: the same, for catalogs, weights and factors that are        *)
(* integers small enough for every product and sum to be exact.            *)
C8_WeightLinearity ==
    (pc = "done" /\ SmallEfficiencies) =>
       /\ \A k \in Factors :
             find_best_combination(n, nanoparticleData, Scaled(k, weights))
               = ScaledResult(k)
       /\ ExampleResult

C8_Witness ==
    /\ pc = "done"
    /\ nanoparticleData = ExampleCatalog
    /\ weights = [scattering |-> Whole(2), absorption |-> Whole(0)]
    /\ n = 2
    /\ ret.score = Fin(Whole(16))

StrictlyGreater(x, max) == ~max.fin \/ gt(x, max.val)

(* C10: the running best starts at (None, -inf); it changes exactly when a *)
(* valid candidate scores strictly more than maxScore, and every change is *)
(* reported with the adopted assignment and score; maxScore never          *)
(* decreases, the reported scores increase strictly, and the returned pair *)
(* is the last report, or (None, -inf) without any report.                 *)
C10_RunningBest ==
    /\ [](pc = "start" =>
            maxScore = NegInf /\ bestCombination = None /\ printed = <<>>)
    /\ [](\A i \in 1..(Len(printed) - 1) :
            gt(printed[i + 1][2].val, printed[i][2].val))
    /\ [](pc = "done" =>
            ret = IF printed = <<>> THEN Returned(None, NegInf)
                  ELSE Returned(printed[Len(printed)][1],
                                printed[Len(printed)][2]))
    /\ [][maxScore.fin =>
            maxScore'.fin /\ ~gt(maxScore.val, maxScore'.val)]_vars
    /\ [][IF /\ pc = "loop"
             /\ pos' = pos + 1
             /\ DistinctNanoparticles(combination)
             /\ StrictlyGreater(CrossTalkScore(weights, combination), maxScore)
          THEN /\ bestCombination' = Some(combination)
               /\ maxScore' = Fin(CrossTalkScore(weights, combination))
               /\ printed' = Append(printed, <<bestCombination', maxScore'>>)
          ELSE UNCHANGED <<bestCombination, maxScore, printed>>]_vars

C10_Witness ==
    /\ pc = "done"
    /\ Len(printed) >= 3
    /\ pos > Len(printed) + 1

====
